---- MODULE Spec2Model ----
(***************************************************************************)
(* Model of the API monitoring engine of src/backend/app.py (API Sentinel) *)
(* and of the request the Streamlit front end builds for it.               *)
(*                                                                         *)
(* Conventions.                                                            *)
(*  - Wall-clock times are integers in units of 1e-5 s (TicksPerSecond     *)
(*    ticks per second), so that round(x, 4) is a real conversion.         *)
(*  - overall_score is kept in hundredths of a point, so that round(x, 2)  *)
(*    is a real conversion.                                                *)
(*  - Texts the auth resolver handles are sequences of ASCII codes, so     *)
(*    that base64 is computed; the other texts are TLA+ strings.           *)
(***************************************************************************)
EXTENDS Integers, Sequences, FiniteSets, TLC

VARIABLES
    api_request,   \* the APIMonitorRequest of the run (NoValue before it arrives)
    pc,            \* position in monitor_api: "idle", "loop", "waiting", "stats", "done", "raised"
    results,       \* results list of monitor_api
    total_score,   \* total_score of monitor_api
    stats,         \* stats dict of monitor_api
    inflight,      \* the GET requests.request has sent and not got an outcome for
    responses,     \* outcome the network gave to each GET so far, in order
    now,           \* wall clock (time.time()), in ticks
    start_time,    \* start_time of monitor_api
    gets,          \* the GETs sent so far: loop position and URL of each, in order
    idx,           \* number of endpoints the for loop has taken so far
    exception,     \* exception that left monitor_api ("none" when there is none)
    response,      \* MonitorResponse returned (NoValue until returned)
    score_call,    \* a call of calculate_api_score: arguments and return value
    auth_call      \* a call of the auth resolver: payload, parsed AuthConfig, headers

vars == <<api_request, pc, results, total_score, stats, inflight, responses,
          now, start_time, gets, idx, exception, response, score_call, auth_call>>

NoValue == [none |-> TRUE]

(***************************************************************************)
(* Bounds of the model.                                                    *)
(***************************************************************************)
MaxEndpoints == 3

Urls == {"https://x/a", "https://x/b"}

TicksPerSecond == 10 ^ 5

(***************************************************************************)
(* Python's round(x, ndigits) on the quotient num/den, as the nearest      *)
(* integer number of units (ties to even).                                 *)
(***************************************************************************)
RoundDiv(num, den) ==
    LET q == num \div den
        r == num % den
    IN  IF 2 * r < den THEN q
        ELSE IF 2 * r > den THEN q + 1
        ELSE IF q % 2 = 0 THEN q ELSE q + 1

\* round(seconds, 4) of a time given in ticks, as ticks
Round4(ticks) == RoundDiv(ticks, 10) * 10

(***************************************************************************)
(* calculate_api_score                                                     *)
(***************************************************************************)
Min(a, b) == IF a < b THEN a ELSE b

Availability(status) ==
    IF status = 200 THEN 50
    ELSE IF 200 <= status /\ status < 300 THEN 40
    ELSE IF status = 401 THEN 10
    ELSE 0

PerformanceLoose(response_time) ==
    IF 10 * response_time <= 5 * TicksPerSecond THEN 30
    ELSE IF response_time <= TicksPerSecond THEN 20
    ELSE IF response_time <= 2 * TicksPerSecond THEN 10
    ELSE 0

Performance(response_time) ==
    IF 10 * response_time < 5 * TicksPerSecond THEN 30
    ELSE IF response_time < TicksPerSecond THEN 20
    ELSE IF response_time < 2 * TicksPerSecond THEN 10
    ELSE 0

Consistency(valid_format) == IF valid_format THEN 20 ELSE 0

calculate_api_score(status, response_time, valid_format) ==
    Min(100, Availability(status) + Performance(response_time)
             + Consistency(valid_format))

(***************************************************************************)
(* A call of calculate_api_score on inputs drawn from ScoreStatuses,       *)
(* ScoreTimes and BOOLEAN.                                                 *)
(***************************************************************************)
ScoreStatuses == {0, 100, 199, 200, 201, 204, 299, 300, 301, 400, 401, 403, 404, 500}

ScoreTimes ==
    {0, 1, 49999, 50000, 50001, 99999, 100000, 100001,
     199999, 200000, 200001, 1000000}

NotReturned == 0 - 1

ScoreInit ==
    /\ score_call \in [status : ScoreStatuses, response_time : ScoreTimes,
                       valid_format : BOOLEAN, ret : {NotReturned}]
    /\ api_request = NoValue /\ pc = "idle" /\ results = <<>> /\ total_score = 0
    /\ stats = NoValue /\ inflight = NoValue /\ responses = <<>> /\ now = 0
    /\ start_time = 0 /\ gets = <<>> /\ idx = 0 /\ exception = "none" /\ response = NoValue
    /\ auth_call = NoValue

CallScore ==
    /\ score_call # NoValue
    /\ score_call.ret = NotReturned
    /\ score_call' = [score_call EXCEPT !.ret =
           calculate_api_score(score_call.status, score_call.response_time,
                               score_call.valid_format)]
    /\ UNCHANGED <<api_request, pc, results, total_score, stats, inflight,
                   responses, now, start_time, idx, exception, response, auth_call,
                   gets>>

ScoreNext == CallScore

ScoreSpec == ScoreInit /\ [][ScoreNext]_vars

(***************************************************************************)
(* Auth resolver.  Texts are sequences of ASCII codes.                     *)
(***************************************************************************)
None == <<0 - 1>>                     \* Python None in a text field

Truthy(s) == s # None /\ s # <<>>     \* bool(s) of an Optional[str]

XApiKey == <<88, 45, 65, 80, 73, 45, 75, 69, 89>>                   \* "X-API-KEY"
Authorization == <<65, 117, 116, 104, 111, 114, 105, 122, 97, 116, 105, 111, 110>>
BearerPrefix == <<66, 101, 97, 114, 101, 114, 32>>                  \* "Bearer "
BasicPrefix == <<66, 97, 115, 105, 99, 32>>                         \* "Basic "
Colon == <<58>>                                                     \* ":"
PadChar == <<61>>                                                   \* "="

\* the i-th character (0..63) of the standard base64 alphabet
B64Char(i) ==
    IF i < 26 THEN 65 + i
    ELSE IF i < 52 THEN 97 + (i - 26)
    ELSE IF i < 62 THEN 48 + (i - 52)
    ELSE IF i = 62 THEN 43
    ELSE 47

RECURSIVE b64encode(_)
b64encode(bytes) ==
    IF Len(bytes) = 0 THEN <<>>
    ELSE IF Len(bytes) = 1 THEN
        <<B64Char(bytes[1] \div 4), B64Char((bytes[1] % 4) * 16)>>
            \o PadChar \o PadChar
    ELSE IF Len(bytes) = 2 THEN
        <<B64Char(bytes[1] \div 4),
          B64Char((bytes[1] % 4) * 16 + bytes[2] \div 16),
          B64Char((bytes[2] % 16) * 4)>> \o PadChar
    ELSE
        <<B64Char(bytes[1] \div 4),
          B64Char((bytes[1] % 4) * 16 + bytes[2] \div 16),
          B64Char((bytes[2] % 16) * 4 + bytes[3] \div 64),
          B64Char(bytes[3] % 64)>>
            \o b64encode(SubSeq(bytes, 4, Len(bytes)))

\* fields of the pydantic model AuthConfig
AuthFields ==
    {"auth_type", "api_key", "bearer_token", "username", "password",
     "client_id", "client_secret"}

\* AuthConfig(**payload): the declared fields, defaulted; other keys are dropped
AuthConfig(payload) ==
    [f \in AuthFields |->
        IF f \in DOMAIN payload THEN payload[f]
        ELSE IF f = "auth_type" THEN "none" ELSE None]

prepare_headers(auth) ==
    IF auth = NoValue THEN <<>>
    ELSE IF auth.auth_type = "api_key" /\ Truthy(auth.api_key)
        THEN XApiKey :> auth.api_key
    ELSE IF auth.auth_type = "bearer" /\ Truthy(auth.bearer_token)
        THEN Authorization :> (BearerPrefix \o auth.bearer_token)
    ELSE IF auth.auth_type = "basic" /\ Truthy(auth.username) /\ Truthy(auth.password)
        THEN Authorization :>
                (BasicPrefix \o b64encode(auth.username \o Colon \o auth.password))
    ELSE <<>>

\* the "auth" object monitor_apis of the front end puts in the payload
auth_payload(auth_type, auth_config) ==
    IF auth_type = "none" THEN NoValue
    ELSE IF auth_type = "api_key" THEN
        [auth_type |-> auth_type, api_key |-> auth_config.api_key,
         api_key_header |-> auth_config.api_key_header]
    ELSE IF auth_type = "bearer" THEN
        [auth_type |-> auth_type, bearer_token |-> auth_config.bearer_token]
    ELSE IF auth_type = "basic" THEN
        [auth_type |-> auth_type, username |-> auth_config.username,
         password |-> auth_config.password]
    ELSE [auth_type |-> auth_type]

AuthTypes == {"none", "api_key", "bearer", "basic", "oauth2"}

Texts == {<<>>, <<117>>, <<107, 49>>}                  \* "", "u", "k1"
Secrets == {None, <<>>, <<112, 119, 100>>}             \* None, "", "pwd"
XCustom == <<88, 45, 67>>                              \* "X-C"
HeaderNames == {None, XApiKey, XCustom}

\* auth objects a caller of POST /monitor/api can send
DirectPayloads ==
    [auth_type : AuthTypes, api_key : Secrets, api_key_header : HeaderNames,
     bearer_token : Secrets, username : {None, <<117>>}, password : Secrets,
     client_id : {None, <<99>>}]

\* auth objects the front end sends
FrontendPayloads ==
    {auth_payload(t, c) :
        t \in AuthTypes \ {"oauth2"},
        c \in [api_key : Texts, api_key_header : {<<>>, XApiKey, XCustom},
               bearer_token : Texts, username : Texts, password : Texts]}

AuthInit ==
    /\ auth_call \in [payload : DirectPayloads \cup FrontendPayloads,
                      auth : {NoValue}, headers : {NoValue}, resolved : {FALSE}]
    /\ api_request = NoValue /\ pc = "idle" /\ results = <<>> /\ total_score = 0
    /\ stats = NoValue /\ inflight = NoValue /\ responses = <<>> /\ now = 0
    /\ start_time = 0 /\ gets = <<>> /\ idx = 0 /\ exception = "none" /\ response = NoValue
    /\ score_call = NoValue

\* pydantic builds api_request.auth, and prepare_headers resolves it
ResolveAuth ==
    /\ auth_call # NoValue
    /\ ~auth_call.resolved
    /\ LET auth == IF auth_call.payload = NoValue THEN NoValue
                   ELSE AuthConfig(auth_call.payload)
       IN  auth_call' = [auth_call EXCEPT !.auth = auth,
                             !.headers = prepare_headers(auth),
                             !.resolved = TRUE]
    /\ UNCHANGED <<api_request, pc, results, total_score, stats, inflight,
                   responses, now, start_time, idx, exception, response, score_call,
                   gets>>

AuthNext == ResolveAuth

AuthSpec == AuthInit /\ [][AuthNext]_vars

(***************************************************************************)
(* The network: what one GET can come back with.                           *)
(***************************************************************************)
JsonObject(keys) == [json |-> "object", members |-> keys]
JsonArray(items) == [json |-> "array", members |-> items]
JsonNumber == [json |-> "number", members |-> {}]
NotJson == [json |-> "invalid", members |-> {}]

RateLimited ==
    ("X-RateLimit-Limit" :> "100") @@ ("X-RateLimit-Remaining" :> "42")
LimitOnly == "X-RateLimit-Limit" :> "100"
PlainHeaders == "Content-Type" :> "application/json"

Reply(status_code, elapsed, body, headers) ==
    [kind |-> "response", status_code |-> status_code, elapsed |-> elapsed,
     body |-> body, headers |-> headers, message |-> ""]

Failure(kind, message, elapsed) ==
    [kind |-> kind, status_code |-> 0, elapsed |-> elapsed, body |-> NotJson,
     headers |-> <<>>, message |-> message]

FastTime == 12346          \* 0.12346 s
SlowTime == 250001         \* 2.50001 s
MidTime == 150002          \* 1.50002 s

Replies ==
    {Reply(200, FastTime, b, PlainHeaders) :
        b \in {JsonObject({"id", "name"}), JsonObject({"name"}), JsonObject({}),
               NotJson, JsonArray({"id", "name"}), JsonNumber}}
    \cup {Reply(404, FastTime, JsonObject({"id", "name"}), PlainHeaders),
          Reply(200, SlowTime, JsonObject({"id", "name"}), PlainHeaders),
          Reply(200, FastTime, JsonObject({"id", "name"}), RateLimited),
          Reply(200, FastTime, JsonObject({"id", "name"}), LimitOnly)}

SSLErrors == {Failure("SSLError", "certificate verify failed", 5000)}

RequestExceptions(timeout) ==
    {Failure("ConnectionError", "Connection refused", 100),
     Failure("Timeout", "Read timed out.", timeout * TicksPerSecond)}

(***************************************************************************)
(* monitor_api                                                             *)
(***************************************************************************)
Some(x) == <<x>>           \* an Optional[str] that is set
Unset == <<>>              \* an Optional[str] that is None

RECURSIVE Join(_)
\* ', '.join(keys)
Join(keys) ==
    IF Len(keys) = 0 THEN ""
    ELSE IF Len(keys) = 1 THEN keys[1]
    ELSE keys[1] \o ", " \o Join(Tail(keys))

\* bool(api_request.expected_format)
FormatGiven(expected_format) ==
    expected_format # NoValue /\ expected_format # <<>>

\* lines 174-189: [raised, valid_format, warnings]
ValidateFormat(expected_format, body) ==
    IF ~FormatGiven(expected_format)
        THEN [raised |-> "none", valid_format |-> TRUE, warnings |-> <<>>]
    ELSE IF body.json = "invalid"
        THEN [raised |-> "none", valid_format |-> FALSE,
              warnings |-> <<"Invalid JSON response">>]
    ELSE IF body.json \notin {"object", "array"}
        THEN [raised |-> "TypeError", valid_format |-> TRUE, warnings |-> <<>>]
    ELSE LET missing_keys ==
                 SelectSeq(expected_format, LAMBDA key : key \notin body.members)
         IN  IF missing_keys # <<>>
                 THEN [raised |-> "none", valid_format |-> FALSE,
                       warnings |-> <<"Missing keys: " \o Join(missing_keys)>>]
                 ELSE [raised |-> "none", valid_format |-> TRUE, warnings |-> <<>>]

\* lines 191-195: [raised, warnings]
RateLimitWarning(headers) ==
    IF "X-RateLimit-Limit" \notin DOMAIN headers
        THEN [raised |-> "none", warnings |-> <<>>]
    ELSE IF "X-RateLimit-Remaining" \notin DOMAIN headers
        THEN [raised |-> "KeyError", warnings |-> <<>>]
    ELSE [raised |-> "none",
          warnings |-> <<"Rate limit: " \o headers["X-RateLimit-Remaining"]
                          \o "/" \o headers["X-RateLimit-Limit"]>>]

APIValidationResult(endpoint, status, response_time, valid_format, headers, score, error, warnings) ==
    [endpoint |-> endpoint, status |-> status, response_time |-> response_time,
     valid_format |-> valid_format, headers |-> headers, score |-> score,
     error |-> error, warnings |-> warnings]

SslAdvice == "Try disabling SSL validation if testing internally"

\* lines 215-224: the result of a probe that raised SSLError
SSLFailureResult(endpoint) ==
    APIValidationResult(endpoint, 0, 0, FALSE, <<>>, 0,
        Some("SSL Certificate verification failed"), <<SslAdvice>>)

RequestFailureResultWithAdvice(endpoint, message) ==
    APIValidationResult(endpoint, 0, 0, FALSE, <<>>, 0, Some(message),
        <<SslAdvice>>)

\* lines 229-238: the result of a probe that raised another RequestException
RequestFailureResult(endpoint, message) ==
    APIValidationResult(endpoint, 0, 0, FALSE, <<>>, 0, Some(message), <<>>)

NextEndpointReversed(endpoints, taken) == endpoints[Len(endpoints) - taken]

\* line 157: the endpoint the for loop takes after `taken` endpoints
NextEndpoint(endpoints, taken) == endpoints[taken + 1]

Requests ==
    [endpoints : UNION {[1..n -> Urls] : n \in 0..MaxEndpoints},
     expected_format : {NoValue, <<>>, <<"id", "name">>},
     timeout : {1},
     auth : {NoValue},
     follow_redirects : {TRUE},
     validate_ssl : {TRUE}]

Init ==
    /\ api_request = NoValue /\ pc = "idle" /\ results = <<>> /\ total_score = 0
    /\ stats = NoValue /\ inflight = NoValue /\ responses = <<>> /\ now = 0
    /\ start_time = 0 /\ gets = <<>> /\ idx = 0 /\ exception = "none" /\ response = NoValue
    /\ score_call = NoValue /\ auth_call = NoValue

\* lines 147-155: the request arrives and the accumulators are set up
StartRun ==
    /\ pc = "idle"
    /\ \E req \in Requests : api_request' = req
    /\ start_time' = now
    /\ results' = <<>>
    /\ total_score' = 0
    /\ stats' = [total_endpoints |-> Len(api_request'.endpoints),
                 successful |-> 0, failed |-> 0, avg_response_time |-> 0]
    /\ idx' = 0
    /\ pc' = "loop"
    /\ UNCHANGED <<inflight, responses, now, exception, response, score_call,
                   auth_call, gets>>

\* lines 157-170: the loop takes the next endpoint and requests.request sends the GET
SendGet ==
    /\ pc = "loop"
    /\ idx < Len(api_request.endpoints)
    /\ idx' = idx + 1
    /\ inflight' = [endpoint |-> NextEndpoint(api_request.endpoints, idx),
                    headers |-> prepare_headers(api_request.auth),
                    timeout |-> api_request.timeout,
                    allow_redirects |-> api_request.follow_redirects,
                    verify |-> api_request.validate_ssl,
                    endpoint_start |-> now]
    /\ gets' = Append(gets, [position |-> idx + 1,
                              endpoint |-> NextEndpoint(api_request.endpoints, idx)])
    /\ pc' = "waiting"
    /\ UNCHANGED <<api_request, results, total_score, stats, responses, now,
                   start_time, exception, response, score_call, auth_call>>

\* lines 172-210: the result of a probe whose response raised nothing
ResponseResult(endpoint, r, response_time, expected_format) ==
    LET fmt == ValidateFormat(expected_format, r.body)
        rate == RateLimitWarning(r.headers)
    IN  APIValidationResult(endpoint, r.status_code, Round4(response_time),
            fmt.valid_format, r.headers,
            calculate_api_score(r.status_code, response_time, fmt.valid_format),
            Unset, fmt.warnings \o rate.warnings)

\* lines 172-210: requests.request returns a response
ResponseReceived ==
    /\ pc = "waiting"
    /\ \E r \in Replies :
        LET response_time == (now + r.elapsed) - inflight.endpoint_start
            fmt == ValidateFormat(api_request.expected_format, r.body)
            rate == RateLimitWarning(r.headers)
            result == ResponseResult(inflight.endpoint, r, response_time,
                                     api_request.expected_format)
        IN  /\ now' = now + r.elapsed
            /\ responses' = Append(responses, r)
            /\ IF fmt.raised # "none" \/ rate.raised # "none"
                 THEN /\ exception' = IF fmt.raised # "none" THEN fmt.raised
                                      ELSE rate.raised
                      /\ pc' = "raised"
                      /\ UNCHANGED <<results, total_score, stats>>
                 ELSE /\ total_score' = total_score + result.score
                      /\ stats' = [stats EXCEPT
                             !.successful = @ + 1,
                             !.avg_response_time = @ + response_time]
                      /\ results' = Append(results, result)
                      /\ pc' = "loop"
                      /\ UNCHANGED exception
    /\ inflight' = NoValue
    /\ UNCHANGED <<api_request, start_time, idx, response, score_call, auth_call,
                   gets>>

SSLErrorRaisedUncounted ==
    /\ pc = "waiting"
    /\ \E e \in SSLErrors :
        /\ now' = now + e.elapsed
        /\ responses' = Append(responses, e)
    /\ results' = Append(results, SSLFailureResult(inflight.endpoint))
    /\ inflight' = NoValue
    /\ pc' = "loop"
    /\ UNCHANGED <<api_request, total_score, stats, start_time, idx, exception,
                   response, score_call, auth_call, gets>>

\* lines 212-225: requests.request raises SSLError
SSLErrorRaised ==
    /\ pc = "waiting"
    /\ \E e \in SSLErrors :
        /\ now' = now + e.elapsed
        /\ responses' = Append(responses, e)
    /\ results' = Append(results, SSLFailureResult(inflight.endpoint))
    /\ stats' = [stats EXCEPT !.failed = @ + 1]
    /\ inflight' = NoValue
    /\ pc' = "loop"
    /\ UNCHANGED <<api_request, total_score, start_time, idx, exception, response,
                   score_call, auth_call, gets>>

RequestExceptionRetried ==
    /\ pc = "waiting"
    /\ \E e \in RequestExceptions(inflight.timeout) :
        /\ now' = now + e.elapsed
        /\ responses' = Append(responses, e)
    /\ idx' = idx - 1
    /\ inflight' = NoValue
    /\ pc' = "loop"
    /\ UNCHANGED <<api_request, results, total_score, stats, start_time, exception,
                   response, score_call, auth_call, gets>>

\* lines 227-239: requests.request raises another RequestException
RequestExceptionRaised ==
    /\ pc = "waiting"
    /\ \E e \in RequestExceptions(inflight.timeout) :
        /\ now' = now + e.elapsed
        /\ responses' = Append(responses, e)
        /\ results' = Append(results,
               RequestFailureResult(inflight.endpoint, e.message))
    /\ stats' = [stats EXCEPT !.failed = @ + 1]
    /\ inflight' = NoValue
    /\ pc' = "loop"
    /\ UNCHANGED <<api_request, total_score, start_time, idx, exception, response,
                   score_call, auth_call, gets>>

FinalStatsOverTotal(st) ==
    IF st.successful > 0
        THEN [st EXCEPT !.avg_response_time =
                 RoundDiv(st.avg_response_time, 10 * st.total_endpoints) * 10]
        ELSE [st EXCEPT !.avg_response_time = 0]

\* lines 241-245
FinalStats(st) ==
    IF st.successful > 0
        THEN [st EXCEPT !.avg_response_time =
                 RoundDiv(st.avg_response_time, 10 * st.successful) * 10]
        ELSE [st EXCEPT !.avg_response_time = 0]

\* lines 247, 250: avg_score > 70, avg_score being total_score / n (0 when n = 0)
Success(score_sum, n) == IF n > 0 THEN score_sum > 70 * n ELSE FALSE

OverallScoreTruncated(score_sum, n) ==
    IF n > 0 THEN (100 * score_sum) \div n ELSE 0

\* lines 247, 252: round(avg_score, 2), in hundredths of a point
OverallScore(score_sum, n) ==
    IF n > 0 THEN RoundDiv(100 * score_sum, n) ELSE 0

\* lines 241-255: the loop is over; statistics, overall score and the response
Finish ==
    /\ pc = "loop"
    /\ idx = Len(api_request.endpoints)
    /\ stats' = FinalStats(stats)
    /\ response' =
         [success |-> Success(total_score, Len(api_request.endpoints)),
          results |-> results,
          overall_score |-> OverallScore(total_score, Len(api_request.endpoints)),
          execution_time |-> Round4(now - start_time),
          stats |-> stats']
    /\ pc' = "done"
    /\ UNCHANGED <<api_request, results, total_score, inflight, responses, now,
                   start_time, idx, exception, score_call, auth_call, gets>>

Next ==
    \/ StartRun
    \/ SendGet
    \/ ResponseReceived
    \/ SSLErrorRaised
    \/ RequestExceptionRaised
    \/ Finish

Spec == Init /\ [][Next]_vars

(***************************************************************************)
(* Large runs.  The state of monitor_api when the loop ends, for a run of  *)
(* n endpoints that all answered 200 with no expected format: `faster` of  *)
(* them within MidTime, the others within SlowTime.  Finish then builds    *)
(* the response.                                                           *)
(***************************************************************************)
LargeRun == 2001
MaxFaster == 12

LargeReply(i, faster) ==
    Reply(200, IF i <= faster THEN MidTime ELSE SlowTime,
          JsonObject({"id", "name"}), PlainHeaders)

LargeInit ==
    \E n \in LargeRun..(LargeRun + 4), faster \in 0..MaxFaster :
        LET url == CHOOSE u \in Urls : TRUE
            elapsed == faster * MidTime + (n - faster) * SlowTime
        IN  /\ api_request = [endpoints |-> [i \in 1..n |-> url],
                              expected_format |-> NoValue, timeout |-> 1,
                              auth |-> NoValue, follow_redirects |-> TRUE,
                              validate_ssl |-> TRUE]
            /\ responses = [i \in 1..n |-> LargeReply(i, faster)]
            /\ results = [i \in 1..n |->
                   ResponseResult(url, LargeReply(i, faster),
                                  LargeReply(i, faster).elapsed, NoValue)]
            /\ total_score =
                   faster * calculate_api_score(200, MidTime, TRUE)
                   + (n - faster) * calculate_api_score(200, SlowTime, TRUE)
            /\ stats = [total_endpoints |-> n, successful |-> n, failed |-> 0,
                        avg_response_time |-> elapsed]
            /\ now = elapsed
            /\ idx = n
            /\ gets = [i \in 1..n |-> [position |-> i, endpoint |-> url]]
    /\ pc = "loop" /\ inflight = NoValue /\ start_time = 0 /\ exception = "none"
    /\ response = NoValue /\ score_call = NoValue /\ auth_call = NoValue

LargeNext == Finish

LargeSpec == LargeInit /\ [][LargeNext]_vars

(***************************************************************************)
(* Properties.                                                             *)
(***************************************************************************)
RECURSIVE SumOf(_, _)
\* the sum of Op(seq[i]) over the sequence
SumOf(Op(_), seq) ==
    IF Len(seq) = 0 THEN 0 ELSE Op(Head(seq)) + SumOf(Op, Tail(seq))

ScoreOf(r) == r.score
ReportedTimeOf(r) == r.response_time
MeasuredTimeOf(o) == IF o.kind = "response" THEN o.elapsed ELSE 0
TransportedOf(o) == IF o.kind = "response" THEN 1 ELSE 0

Abs(x) == IF x < 0 THEN 0 - x ELSE x

Returned == pc = "done"

\* C1: no outcome of a probe leaves monitor_api as an exception; every
\* failure of an endpoint ends as a data value of the batch.
C1_FailuresIsolated == exception = "none" /\ pc # "raised"

\* C2: the returned results are exactly one per input endpoint, in input
\* order, and a result, once appended, is never changed or removed.
C2_State ==
    Returned =>
        /\ Len(response.results) = Len(api_request.endpoints)
        /\ \A i \in 1..Len(api_request.endpoints) :
               response.results[i].endpoint = api_request.endpoints[i]

C2_Step ==
    /\ pc # "idle" =>
           /\ Len(results') \in {Len(results), Len(results) + 1}
           /\ \A i \in 1..Len(results) : results'[i] = results[i]
    /\ response # NoValue => response' = response

C2_OneResultPerEndpointInOrder == [](C2_State) /\ [][C2_Step]_vars

C2_Witness ==
    /\ Returned
    /\ Len(api_request.endpoints) = 3
    /\ api_request.endpoints[1] = api_request.endpoints[3]
    /\ api_request.endpoints[1] # api_request.endpoints[2]
    /\ response.results[2].error # Unset

\* C3: the probes of a run are concurrent: an endpoint not yet probed can
\* have its GET issued while another GET is outstanding, and the run takes
\* no longer than its slowest probe.
C3_ProbesConcurrent ==
    /\ (pc = "waiting" /\ idx < Len(api_request.endpoints)) => ENABLED SendGet
    /\ Returned =>
           \E slowest \in {0} \cup {responses[i].elapsed : i \in 1..Len(responses)} :
               now - start_time <= slowest

\* C4: success is true exactly when the reported overall_score is above 70
\* (7000 hundredths); at exactly 70 success is false.
C4_SuccessIffReportedAbove70 ==
    Returned => (response.success <=> response.overall_score > 7000)

\* C5 (as stated): overall_score is exactly the arithmetic mean of the N
\* scores, and 0 with success false for an empty list.
C5_OverallScoreIsExactMean ==
    Returned =>
        LET n == Len(api_request.endpoints)
        IN  IF n = 0 THEN response.overall_score = 0 /\ ~response.success
            ELSE response.overall_score * n
                     = 100 * SumOf(ScoreOf, response.results)

\* C5 (amended): overall_score is the arithmetic mean of the N scores (failed
\* endpoints counting 0) rounded to two decimals, and exactly 0 with success
\* false for an empty list.
C5_OverallScoreIsRoundedMean ==
    Returned =>
        LET n == Len(api_request.endpoints)
            sum == SumOf(ScoreOf, response.results)
        IN  /\ Len(response.results) = n
            /\ IF n = 0 THEN response.overall_score = 0 /\ ~response.success
               ELSE /\ 2 * Abs(response.overall_score * n - 100 * sum) <= n
                    /\ (sum = 50 * n => response.overall_score = 5000
                                         /\ ~response.success)

C5_Witness ==
    /\ Returned
    /\ Len(api_request.endpoints) = 3
    /\ \E i, j \in 1..3 : /\ response.results[i].score = 100
                          /\ response.results[j].error # Unset
    /\ (100 * SumOf(ScoreOf, response.results)) % 3 # 0

\* C6: calculate_api_score returns availability + performance + consistency,
\* an integer in 0..100, by the three tables (times in seconds: 0.5, 1, 2),
\* and the performance part never grows with the response time.
C6_ScoreTable ==
    score_call # NoValue /\ score_call.ret # NotReturned =>
        LET status == score_call.status
            t == score_call.response_time
            availability ==
                CASE status = 200 -> 50
                  [] status > 200 /\ status < 300 -> 40
                  [] status = 401 -> 10
                  [] OTHER -> 0
            performance ==
                CASE 2 * t < TicksPerSecond -> 30
                  [] 2 * t >= TicksPerSecond /\ t < TicksPerSecond -> 20
                  [] t >= TicksPerSecond /\ t < 2 * TicksPerSecond -> 10
                  [] OTHER -> 0
            consistency == IF score_call.valid_format THEN 20 ELSE 0
        IN  /\ score_call.ret = availability + performance + consistency
            /\ score_call.ret \in 0..100
            /\ \A later \in ScoreTimes :
                   later >= t =>
                       calculate_api_score(status, later, score_call.valid_format)
                           <= score_call.ret

C6_Witness ==
    /\ score_call # NoValue
    /\ score_call.status = 401
    /\ 2 * score_call.response_time = TicksPerSecond
    /\ score_call.valid_format
    /\ score_call.ret = 50

\* C7: a probe that ends in a transport or TLS failure gives a result with
\* status 0, response_time 0, valid_format false, score 0, no headers and a
\* non-empty error; its warnings are empty, or exactly the advice about TLS
\* verification for a TLS failure; validate_ssl is never changed.
C7_State ==
    \A i \in 1..Len(results) :
        responses[i].kind # "response" =>
            /\ results[i].status = 0
            /\ results[i].response_time = 0
            /\ results[i].valid_format = FALSE
            /\ results[i].score = 0
            /\ DOMAIN results[i].headers = {}
            /\ results[i].error # Unset
            /\ results[i].error[1] # ""
            /\ results[i].warnings =
                   IF responses[i].kind = "SSLError"
                       THEN <<"Try disabling SSL validation if testing internally">>
                       ELSE <<>>

C7_Step ==
    pc # "idle" => api_request'.validate_ssl = api_request.validate_ssl

C7_FailureResult == [](C7_State) /\ [][C7_Step]_vars

C7_Witness ==
    /\ Returned
    /\ \E i, j, k \in 1..Len(results) :
           /\ responses[i].kind = "SSLError"
           /\ responses[j].kind = "Timeout"
           /\ responses[k].kind = "ConnectionError"
    /\ api_request.validate_ssl

\* C8: with expected keys supplied, a transported probe has valid_format
\* true exactly when the body is a JSON object holding every expected key,
\* with the warning "Invalid JSON response" on a parse failure and a warning
\* listing the missing keys in the supplied order; with no expected keys
\* valid_format is true.
C8_ValidFormatIffObjectWithKeys ==
    \A i \in 1..Len(results) :
        responses[i].kind = "response" =>
            LET expected == api_request.expected_format
                body == responses[i].body
                missing == IF expected = NoValue THEN <<>>
                           ELSE SelectSeq(expected, LAMBDA k : k \notin body.members)
            IN  IF expected = NoValue \/ expected = <<>>
                    THEN results[i].valid_format
                    ELSE /\ results[i].valid_format
                               <=> (body.json = "object" /\ missing = <<>>)
                         /\ body.json = "invalid" =>
                                "Invalid JSON response" \in
                                    {results[i].warnings[w] :
                                        w \in 1..Len(results[i].warnings)}
                         /\ (body.json = "object" /\ missing # <<>>) =>
                                ("Missing keys: " \o Join(missing)) \in
                                    {results[i].warnings[w] :
                                        w \in 1..Len(results[i].warnings)}

\* C9 (as stated): avg_response_time is exactly the sum of the response
\* times of the transported probes (as measured, or as reported in the
\* results) divided by their number, and 0 when there is none.
C9_AvgIsExactMean ==
    Returned =>
        LET transported == SumOf(TransportedOf, responses)
            avg == response.stats.avg_response_time
        IN  IF transported = 0 THEN avg = 0
            ELSE \/ avg * transported = SumOf(MeasuredTimeOf, responses)
                 \/ avg * transported = SumOf(ReportedTimeOf, response.results)

\* C9 (amended): avg_response_time is the sum of the measured response
\* times of the transported probes divided by their number, rounded to four
\* decimals (10 ticks); failed probes count in neither; it is 0 when no
\* probe was transported.
C9_AvgIsRoundedMean ==
    Returned =>
        LET transported == SumOf(TransportedOf, responses)
            avg == response.stats.avg_response_time
        IN  /\ response.stats.successful = transported
            /\ IF transported = 0 THEN avg = 0
               ELSE /\ avg % 10 = 0
                    /\ 2 * Abs(avg * transported
                               - SumOf(MeasuredTimeOf, responses))
                           <= 10 * transported

C9_Witness ==
    /\ Returned
    /\ SumOf(TransportedOf, responses) = 2
    /\ Len(responses) = 3
    /\ SumOf(MeasuredTimeOf, responses) % 20 # 0

\* C10: the auth resolver gives the header mapping of the table; for an API
\* key the header is named as the caller specified, X-API-KEY otherwise.
C10_HeadersMatchTable ==
    auth_call # NoValue /\ auth_call.resolved =>
        LET p == auth_call.payload
            Field(f) == IF f \in DOMAIN p THEN p[f] ELSE None
            kind == IF p = NoValue \/ "auth_type" \notin DOMAIN p
                        THEN "none" ELSE p.auth_type
        IN  auth_call.headers =
                CASE kind = "api_key" /\ Truthy(Field("api_key")) ->
                         (IF Truthy(Field("api_key_header"))
                              THEN Field("api_key_header") ELSE XApiKey)
                             :> Field("api_key")
                  [] kind = "bearer" /\ Truthy(Field("bearer_token")) ->
                         Authorization :> (BearerPrefix \o Field("bearer_token"))
                  [] kind = "basic" /\ Truthy(Field("username"))
                                    /\ Truthy(Field("password")) ->
                         Authorization :>
                             (BasicPrefix \o b64encode(Field("username") \o Colon
                                                       \o Field("password")))
                  [] OTHER -> <<>>

C12_CountsConsistent ==
    pc # "idle" =>
        LET ok == {i \in 1..Len(results) : results[i].error = Unset}
            ko == {i \in 1..Len(results) :
                      results[i].error # Unset /\ results[i].status = 0}
        IN  /\ stats.successful + stats.failed = Len(results)
            /\ stats.successful = Cardinality(ok)
            /\ stats.failed = Cardinality(ko)
            /\ stats.total_endpoints = Len(api_request.endpoints)
            /\ response # NoValue =>
                   /\ Len(results) = Len(api_request.endpoints)
                   /\ response.results = results
                   /\ response.stats.successful + response.stats.failed
                          = response.stats.total_endpoints
                   /\ response.stats.total_endpoints = Len(response.results)
                   /\ response.stats.successful = Cardinality(ok)
                   /\ response.stats.failed = Cardinality(ko)

C12_Witness ==
    /\ Returned
    /\ Len(response.results) = 3
    /\ response.stats.successful = 2
    /\ response.stats.failed = 1
    /\ \E i \in 1..3 : /\ response.results[i].status = 404
                       /\ response.results[i].error = Unset

====
